---------------------------- MODULE Spec2Model ----------------------------
(***************************************************************************)
(* A model of the VLESS-over-WebSocket session of src/src/_worker.js:      *)
(* handleVLESSProtocol (the one-shot handshake handler), proxyTCP (the     *)
(* relay message handler and its suspended fetch continuations) and        *)
(* handleUDP.  One session (one accepted WebSocket) is modelled; sessions  *)
(* share nothing but the read-only user list.                              *)
(*                                                                         *)
(* Bytes are naturals 0..255, a buffer is a sequence of bytes, JavaScript  *)
(* strings are TLA+ strings.                                               *)
(***************************************************************************)
EXTENDS Integers, Sequences, FiniteSets, TLC

(***************************************************************************)
(* JavaScript values and string helpers                                    *)
(***************************************************************************)

\* The value of buffer[i] for an index outside a Uint8Array.
Undefined == -1

\* buffer[i], 0-based: undefined outside the array.
At(buffer, i) == IF i >= 0 /\ i < Len(buffer) THEN buffer[i + 1] ELSE Undefined

Min(a, b) == IF a < b THEN a ELSE b

\* TypedArray.prototype.slice(start, end), 0-based, end exclusive, clamped;
\* an end that is NaN (22 + undefined) counts as 0.
Slice(buffer, start, end) ==
  LET e == IF end = Undefined THEN 0 ELSE Min(end, Len(buffer))
  IN  IF start >= e THEN << >> ELSE SubSeq(buffer, start + 1, e)

\* String.prototype.substr(start, length), clamped to the string.
Substr(s, start, length) ==
  IF start >= Len(s) THEN "" ELSE SubSeq(s, start + 1, Min(start + length, Len(s)))

\* The i-th character of s, 1-based, as a string of length one.
CharAt(s, i) == SubSeq(s, i, i)

HexDigits == "0123456789abcdef"

\* Number.prototype.toString(16) of a byte.
ToString16(b) ==
  IF b < 16 THEN CharAt(HexDigits, b + 1)
  ELSE CharAt(HexDigits, (b \div 16) + 1) \o CharAt(HexDigits, (b % 16) + 1)

\* String.prototype.padStart(2, '0').
PadStart2(s) == IF Len(s) < 2 THEN "0" \o s ELSE s

RECURSIVE Join(_, _)
\* Array.prototype.join(sep) of a sequence of strings.
Join(parts, sep) ==
  IF Len(parts) = 0 THEN ""
  ELSE IF Len(parts) = 1 THEN parts[1]
  ELSE parts[1] \o sep \o Join(Tail(parts), sep)

\* arrayBufferToHexString: two lower-case hex digits per byte.
arrayBufferToHexString(buffer) ==
  Join([i \in 1..Len(buffer) |-> PadStart2(ToString16(buffer[i]))], "")

\* formatUUID: the 8-4-4-4-12 hyphenated form of a hex string.
formatUUID(hex) ==
  Substr(hex, 0, 8) \o "-" \o Substr(hex, 8, 4) \o "-" \o Substr(hex, 12, 4)
    \o "-" \o Substr(hex, 16, 4) \o "-" \o Substr(hex, 20, 12)

UpperLetters == "ABCDEFGHIJKLMNOPQRSTUVWXYZ"
LowerLetters == "abcdefghijklmnopqrstuvwxyz"

\* The lower-case form of one character.
LowerChar(c) ==
  IF \E k \in 1..26 : CharAt(UpperLetters, k) = c
  THEN CharAt(LowerLetters, CHOOSE k \in 1..26 : CharAt(UpperLetters, k) = c)
  ELSE c

\* String.prototype.toLowerCase.
toLowerCase(s) == Join([i \in 1..Len(s) |-> LowerChar(CharAt(s, i))], "")

RECURSIVE IndexOf(_, _, _)
\* String.prototype.indexOf(pat, from), 0-based; -1 when absent.
IndexOf(s, pat, from) ==
  IF from + Len(pat) > Len(s) THEN -1
  ELSE IF SubSeq(s, from + 1, from + Len(pat)) = pat THEN from
  ELSE IndexOf(s, pat, from + 1)

\* String.prototype.includes.
Includes(s, pat) == IndexOf(s, pat, 0) >= 0

\* String.prototype.startsWith.
StartsWith(s, pat) == Len(s) >= Len(pat) /\ SubSeq(s, 1, Len(pat)) = pat

RECURSIVE Split(_, _)
\* String.prototype.split(sep) for a non-empty separator.
Split(s, sep) ==
  LET k == IndexOf(s, sep, 0)
  IN  IF k < 0 THEN <<s>>
      ELSE <<SubSeq(s, 1, k)>> \o Split(SubSeq(s, k + Len(sep) + 1, Len(s)), sep)

RECURSIVE DecString(_)
\* The decimal text of a natural number (template-literal conversion).
DecString(n) ==
  IF n < 10 THEN CharAt("0123456789", n + 1)
  ELSE DecString(n \div 10) \o CharAt("0123456789", (n % 10) + 1)

\* `${buffer[i]}`: the text of a byte, or of undefined.
ByteText(b) == IF b = Undefined THEN "undefined" ELSE DecString(b)

\* The printable ASCII characters of codes 32..95 and of codes 97..126.
AsciiLow == " !\"#$%&'()*+,-./0123456789:;<=>?@ABCDEFGHIJKLMNOPQRSTUVWXYZ[\\]^_"
AsciiHigh == "abcdefghijklmnopqrstuvwxyz{|}~"

\* TextDecoder on one byte: printable ASCII is itself, CR and LF are kept,
\* every other byte (the grave accent included) is shown as "?".
DecodeByte(b) ==
  IF b >= 32 /\ b <= 95 THEN CharAt(AsciiLow, b - 31)
  ELSE IF b >= 97 /\ b <= 126 THEN CharAt(AsciiHigh, b - 96)
  ELSE IF b = 13 THEN "\r"
  ELSE IF b = 10 THEN "\n"
  ELSE "?"

\* new TextDecoder().decode(bytes).
TextDecode(bytes) == Join([i \in 1..Len(bytes) |-> DecodeByte(bytes[i])], "")

\* TextEncoder on one character of the texts used here.
EncodeChar(c) == CHOOSE b \in 0..126 : DecodeByte(b) = c /\ (c = "?" => b = 63)

\* new TextEncoder().encode(text).
TextEncode(text) == [i \in 1..Len(text) |-> EncodeChar(CharAt(text, i))]

\* parseInt(two hex digits, 16).
ParseHex2(s) ==
  LET d(c) == (CHOOSE k \in 1..16 : CharAt(HexDigits, k) = LowerChar(c)) - 1
  IN  16 * d(CharAt(s, 1)) + d(CharAt(s, 2))

\* hexStringToArrayBuffer: one byte per two hex digits.
hexStringToArrayBuffer(hexString) ==
  [i \in 1..(Len(hexString) \div 2) |-> ParseHex2(Substr(hexString, 2 * (i - 1), 2))]

(***************************************************************************)
(* The handshake: user lookup and header decoding (firstMessageHandler)    *)
(***************************************************************************)

\* A closure variable that is still null, and one that holds a value.
Null == << >>
Some(v) == <<v>>

\* The configured users.
VLESS_USERS ==
  { [uuid |-> "62a9adef-40b2-477a-861f-ce1e8604bc34", email |-> "user@example.com",
     level |-> 0, alterId |-> 0] }

\* The hyphenated identifier the handler derives from the first 16 bytes.
HandshakeUUID(buffer) == formatUUID(arrayBufferToHexString(Slice(buffer, 0, 16)))

\* A lookup that compares all but the last character of the identifiers.
UserFoundPrefix(uuid) ==
  \E u \in VLESS_USERS : Substr(toLowerCase(u.uuid), 0, 35) = Substr(toLowerCase(uuid), 0, 35)
\* VLESS_USERS.find(u => u.uuid.toLowerCase() === uuid.toLowerCase()) found a user.
UserFound(uuid) == \E u \in VLESS_USERS : toLowerCase(u.uuid) = toLowerCase(uuid)

\* ToInt32 of a byte read: undefined counts as 0 under << and |.
ToInt32(b) == IF b = Undefined THEN 0 ELSE b

\* const port = (buffer[18] << 8) | buffer[19].
HandshakePort(buffer) == 256 * ToInt32(At(buffer, 18)) + ToInt32(At(buffer, 19))

\* isUDP = (command === 2).
IsUDP(command) == command = 2

\* The number of "0" characters at s[i..], at most max of them.
RECURSIVE ZeroRun(_, _, _)
ZeroRun(s, i, max) ==
  IF max = 0 \/ i > Len(s) \/ CharAt(s, i) # "0" THEN 0 ELSE 1 + ZeroRun(s, i + 1, max - 1)

\* .replace(/(?:^|:)0{1,4}/g, ':') from position i (1-based) on.
RECURSIVE ReplaceColonZeros(_, _)
ReplaceColonZeros(s, i) ==
  IF i > Len(s) THEN ""
  ELSE IF i = 1 /\ ZeroRun(s, 1, 4) >= 1
       THEN ":" \o ReplaceColonZeros(s, 1 + ZeroRun(s, 1, 4))
  ELSE IF CharAt(s, i) = ":" /\ ZeroRun(s, i + 1, 4) >= 1
       THEN ":" \o ReplaceColonZeros(s, i + 1 + ZeroRun(s, i + 1, 4))
  ELSE CharAt(s, i) \o ReplaceColonZeros(s, i + 1)

\* .replace(/^0{1,4}/, '').
StripLeadingZeros(s) == SubSeq(s, 1 + ZeroRun(s, 1, 4), Len(s))

\* The number of ":" characters at s[i..].
RECURSIVE ColonRun(_, _)
ColonRun(s, i) == IF i > Len(s) \/ CharAt(s, i) # ":" THEN 0 ELSE 1 + ColonRun(s, i + 1)

\* .replace(/:{2,}/g, '::') from position i (1-based) on.
RECURSIVE CollapseColons(_, _)
CollapseColons(s, i) ==
  IF i > Len(s) THEN ""
  ELSE IF ColonRun(s, i) >= 2 THEN "::" \o CollapseColons(s, i + ColonRun(s, i))
  ELSE CharAt(s, i) \o CollapseColons(s, i + 1)

\* case 3: the text the handler builds from buffer.slice(21, 37).
IPv6Text(ipv6Bytes) ==
  LET joined == Join([i \in 1..Len(ipv6Bytes) |-> PadStart2(ToString16(ipv6Bytes[i]))], ":")
  IN  CollapseColons(StripLeadingZeros(ReplaceColonZeros(joined, 1)), 1)

\* The dotted text read one byte early, from buffer[20..23].
IPv4TextOffByOne(buffer) ==
  ByteText(At(buffer, 20)) \o "." \o ByteText(At(buffer, 21)) \o "."
    \o ByteText(At(buffer, 22)) \o "." \o ByteText(At(buffer, 23))

\* case 1: the dotted text of buffer[21..24].
IPv4Text(buffer) ==
  ByteText(At(buffer, 21)) \o "." \o ByteText(At(buffer, 22)) \o "."
    \o ByteText(At(buffer, 23)) \o "." \o ByteText(At(buffer, 24))

\* case 2: the decoded text of buffer.slice(22, 22 + buffer[21]).
DomainText(buffer) ==
  LET domainLength == At(buffer, 21)
      end == IF domainLength = Undefined THEN Undefined ELSE 22 + domainLength
  IN  TextDecode(Slice(buffer, 22, end))

\* A switch whose default case falls through to case 1.
ParseAddressAnyType(buffer) == [valid |-> TRUE, address |-> IPv4Text(buffer)]
\* The switch on addressType: whether a case other than default ran, and the
\* address it produced.
ParseAddress(buffer) ==
  LET addressType == At(buffer, 20)
  IN  IF addressType = 1 THEN [valid |-> TRUE, address |-> IPv4Text(buffer)]
      ELSE IF addressType = 2 THEN [valid |-> TRUE, address |-> DomainText(buffer)]
      ELSE IF addressType = 3 THEN [valid |-> TRUE, address |-> IPv6Text(Slice(buffer, 21, 37))]
      ELSE [valid |-> FALSE, address |-> ""]

\* addressLength as the switch leaves it: 4, 1 + domainLength or 16 (never
\* read afterwards); NaN, shown as undefined, when the length byte is missing.
AddressLength(buffer) ==
  LET addressType == At(buffer, 20)
  IN  IF addressType = 1 THEN 4
      ELSE IF addressType = 2
           THEN (IF At(buffer, 21) = Undefined THEN Undefined ELSE 1 + At(buffer, 21))
      ELSE IF addressType = 3 THEN 16
      ELSE 0

\* new Uint8Array([0, 0]): the success response.
SuccessResponse == <<0, 0>>

\* The text handleUDP sends.
UDPReply(host, port) ==
  TextEncode("UDP to " \o host \o ":" \o DecString(port) \o " received (simulated)")

(***************************************************************************)
(* The relay: the HTTP special case of proxyTCP's messageHandler           *)
(***************************************************************************)

CRLF == "\r\n"
CRLFCRLF == "\r\n\r\n"

\* port === 80 || port === 443 || host.includes('.com') || ... '.org' ... '.net'.
HttpEligible(host, port) ==
  port = 80 \/ port = 443 \/ Includes(host, ".com") \/ Includes(host, ".org")
    \/ Includes(host, ".net")

\* text.startsWith('GET ') || text.startsWith('POST ') || text.startsWith('CONNECT ').
LooksLikeHttp(text) ==
  StartsWith(text, "GET ") \/ StartsWith(text, "POST ") \/ StartsWith(text, "CONNECT ")

\* `http${port === 443 ? 's' : ''}://${host}:${port}`.
RequestUrl(host, port) ==
  "http" \o (IF port = 443 THEN "s" ELSE "") \o "://" \o host \o ":" \o DecString(port)

\* The header loop: lines[1..] up to the first empty line, split on ': '.
RECURSIVE ParseHeaders(_, _, _)
ParseHeaders(lines, i, headers) ==
  IF i > Len(lines) \/ lines[i] = "" THEN headers
  ELSE LET kv == Split(lines[i], ": ")
       IN  IF Len(kv) >= 2 /\ kv[1] # "" /\ kv[2] # ""
           THEN ParseHeaders(lines, i + 1,
                  [k \in DOMAIN headers \cup {kv[1]} |-> IF k = kv[1] THEN kv[2] ELSE headers[k]])
           ELSE ParseHeaders(lines, i + 1, headers)

\* requestInit: method, headers and body taken from the decoded text.
RequestInit(text) ==
  [method  |-> Split(text, " ")[1],
   headers |-> ParseHeaders(Split(text, CRLF), 2, [k \in {} |-> ""]),
   body    |-> IF Includes(text, CRLFCRLF) THEN Some(Split(text, CRLFCRLF)[2]) ELSE Null]

\* fetch(url, requestInit) rejects before any request leaves: a GET carrying
\* a body (even an empty one) is a TypeError, as is a URL whose host is
\* empty or holds a bare ":".
FetchThrows(host, init) ==
  \/ init.method = "GET" /\ init.body # Null
  \/ host = ""
  \/ Includes(host, ":")

ConnectEstablished == TextEncode("HTTP/1.1 200 Connection Established" \o CRLFCRLF)
BadGateway == TextEncode("HTTP/1.1 502 Bad Gateway" \o CRLFCRLF)

(***************************************************************************)
(* Inputs: the first messages and the later messages a client may send     *)
(***************************************************************************)

\* The 16 identifier bytes of a configured user.
UserIdBytes(u) == hexStringToArrayBuffer(Join(Split(u.uuid, "-"), ""))
GoodId == UserIdBytes(CHOOSE u \in VLESS_USERS : TRUE)

\* The identifier with bit k (0..127) flipped.
FlipBit(id, k) ==
  LET j == 2 ^ (k % 8)
  IN  [i \in 1..Len(id) |->
        IF i # (k \div 8) + 1 THEN id[i]
        ELSE IF (id[i] \div j) % 2 = 1 THEN id[i] - j ELSE id[i] + j]

\* The wire form of a header: identifier, options, command, port, address.
Header(id, options, command, port, addr) ==
  id \o <<options, command, port \div 256, port % 256>> \o addr

AddrIPv4(a, b, c, d) == <<1, a, b, c, d>>
AddrDomain(name) == <<2, Len(name)>> \o TextEncode(name)
AddrIPv6(bytes) == <<3>> \o bytes

Binary(bytes) == [binary |-> TRUE, data |-> bytes]
Text(text) == [binary |-> FALSE, data |-> TextEncode(text)]

\* The number of identifier bits, and of messages a client sends after the first.
IdBits == 128
MaxRelay == 2

ZeroBytes16 == [i \in 1..16 |-> 0]
OnesBytes16 == [i \in 1..16 |-> 255]
MixedBytes16 == <<32, 1, 13, 184, 0, 0, 0, 0, 0, 0, 0, 0, 0, 0, 0, 1>>

\* Scenario A (example.com:80) and scenario C (93.184.216.34:443).
ScenarioA == Header(GoodId, 0, 1, 80, AddrDomain("example.com"))
ScenarioC == Header(GoodId, 0, 1, 443, AddrIPv4(93, 184, 216, 34))
\* A destination outside the HTTP special case.
PlainTCP == Header(GoodId, 0, 1, 8080, AddrIPv4(10, 0, 0, 1))

\* Well-formed headers of a known user.
WellFormedHeaders ==
  { ScenarioA, ScenarioC, PlainTCP,
    Header(GoodId, 0, 1, 0, AddrIPv4(0, 0, 0, 0)),
    Header(GoodId, 0, 1, 65535, AddrIPv4(255, 255, 255, 255)),
    Header(GoodId, 0, 1, 8080, AddrIPv6(ZeroBytes16)),
    Header(GoodId, 0, 1, 8080, AddrIPv6(OnesBytes16)),
    Header(GoodId, 0, 1, 8080, AddrIPv6(MixedBytes16)),
    Header(GoodId, 0, 2, 53, AddrDomain("dns.example")),
    Header(GoodId, 0, 2, 53, AddrIPv4(8, 8, 8, 8)) }

\* Headers followed by payload in the same message.
HeadersWithPayload ==
  { PlainTCP \o TextEncode("hi"), ScenarioA \o TextEncode("GET / HTTP/1.1") }

\* Headers of a known user with a command other than 1 and 2.
OtherCommandHeaders ==
  { Header(GoodId, 0, c, 8080, AddrIPv4(10, 0, 0, 1)) : c \in {0, 3, 255} }

\* Headers of a known user with an address type other than 1, 2 and 3.
OtherAddressTypeHeaders ==
  { Header(GoodId, 0, 1, 8080, <<t, 10, 0, 0, 1>>) : t \in {0, 4, 255} }

\* Domain addresses whose length byte is 0 or promises more than follows.
MalformedDomainHeaders ==
  { Header(GoodId, 0, 1, 8080, <<2, 0>>),
    Header(GoodId, 0, 1, 8080, <<2, 5>> \o TextEncode("ab")),
    Header(GoodId, 0, 1, 80, <<2, 11>> \o TextEncode("exam")),
    Header(GoodId, 0, 1, 8080, <<2>>) }

\* Prefixes of well-formed headers.
TruncatedHeaders ==
  { SubSeq(ScenarioC, 1, n) : n \in {0, 10, 15, 16, 17, 18, 19, 20, 21, 23, 24} }
    \cup { SubSeq(Header(GoodId, 0, 1, 8080, AddrIPv6(OnesBytes16)), 1, 30) }

\* Headers whose identifier is that of no user.
UnknownIdHeaders ==
  { Header(FlipBit(GoodId, k), 0, 1, 80, AddrDomain("example.com")) : k \in 0..(IdBits - 1) }
    \cup { Header(ZeroBytes16, 0, 1, 80, AddrDomain("example.com")) }

FirstMessages ==
  { Binary(b) : b \in WellFormedHeaders \cup HeadersWithPayload \cup OtherCommandHeaders
                      \cup OtherAddressTypeHeaders \cup MalformedDomainHeaders
                      \cup TruncatedHeaders \cup UnknownIdHeaders }
    \cup { Text("hello") }

\* Messages after the first.
RelayMessages ==
  { Binary(TextEncode("GET / HTTP/1.1")),
    Binary(TextEncode("GET / HTTP/1.1" \o CRLF \o "Host: example.com" \o CRLFCRLF)),
    Binary(TextEncode("POST /x HTTP/1.1" \o CRLF \o "Host: example.com" \o CRLFCRLF \o "a=1")),
    Binary(TextEncode("CONNECT example.com:443 HTTP/1.1" \o CRLFCRLF)),
    Binary(TextEncode("hello")),
    Text("ping") }

(***************************************************************************)
(* The session state                                                       *)
(***************************************************************************)

VARIABLES
  firstListener,  \* firstMessageHandler is registered for 'message' (once)
  relayListener,  \* proxyTCP's messageHandler is registered for 'message'
  userId,         \* closure variables of handleVLESSProtocol
  targetHost,
  targetPort,
  isUDP,
  inbox,          \* the message events dispatched so far, in order
  sends,          \* the websocket.send calls made so far, in order
  wsClose,        \* the websocket.close call the session has made, if any
  clientClosed,   \* the peer has closed the channel
  pending,        \* messageHandler runs suspended at an await
  fetches,        \* the fetch calls that issued a request, in order
  handledBy,      \* for each message of inbox, the handler that ran for it
  upstream        \* how each fetch call has ended so far: opened or failed

vars == <<firstListener, relayListener, userId, targetHost, targetPort, isUDP,
          inbox, sends, wsClose, clientClosed, pending, fetches, handledBy, upstream>>

\* The channel as a websocket.send call finds it.
ChannelState ==
  IF wsClose # Null THEN "serverClosed"
  ELSE IF clientClosed THEN "clientClosed"
  ELSE "open"

\* One websocket.send call: the message of the session that caused it (its
\* place in inbox), what was sent, and the channel state at the call.
SendCall(of, kind, data) == [of |-> of, kind |-> kind, data |-> data, chan |-> ChannelState]

\* websocket.send throws once the session has called websocket.close.
SendThrows == wsClose # Null

\* websocket.close(code, reason).
CloseCall(code, reason) == Some([code |-> code, reason |-> reason])

\* handleVLESSProtocol has run: both closures null, the one-shot listener set.
Init ==
  /\ firstListener = TRUE
  /\ relayListener = FALSE
  /\ userId = Null
  /\ targetHost = Null
  /\ targetPort = Null
  /\ isUDP = FALSE
  /\ inbox = << >>
  /\ sends = << >>
  /\ wsClose = Null
  /\ clientClosed = FALSE
  /\ pending = {}
  /\ fetches = << >>
  /\ handledBy = << >>
  /\ upstream = {}

\* A message event can still be dispatched.
CanDispatch == ~clientClosed /\ Len(inbox) < 1 + MaxRelay

\* A listener registered without { once: true } stays after its dispatch.
ListenerKeptAfterDispatch == TRUE
\* { once: true }: whether the listener is still registered after its dispatch.
ListenerAfterOnceDispatch == FALSE

\* firstMessageHandler without the instanceof ArrayBuffer test.
HandshakeOutcomeAnyData(m) ==
  LET buffer == m.data
      uuid == HandshakeUUID(buffer)
      addr == ParseAddress(buffer)
  IN  IF ~UserFound(uuid) THEN [result |-> "invalidUser"]
      ELSE IF ~addr.valid THEN [result |-> "invalidAddressType", uuid |-> uuid]
      ELSE [result |-> "ok", uuid |-> uuid, host |-> addr.address,
            port |-> HandshakePort(buffer), udp |-> IsUDP(At(buffer, 17))]

\* What firstMessageHandler decides for a message.
HandshakeOutcome(m) ==
  LET buffer == m.data
      uuid == HandshakeUUID(buffer)
      addr == ParseAddress(buffer)
  IN  IF ~m.binary THEN [result |-> "invalidFormat"]
      ELSE IF ~UserFound(uuid) THEN [result |-> "invalidUser"]
      ELSE IF ~addr.valid THEN [result |-> "invalidAddressType", uuid |-> uuid]
      ELSE [result |-> "ok", uuid |-> uuid, host |-> addr.address,
            port |-> HandshakePort(buffer), udp |-> IsUDP(At(buffer, 17))]

\* firstMessageHandler, with the proxyTCP or handleUDP call it ends in.
FirstMessage(m) ==
  LET o == HandshakeOutcome(m)
      n == Len(inbox) + 1
  IN  /\ firstListener
      /\ CanDispatch
      /\ inbox' = Append(inbox, m)
      /\ firstListener' = ListenerAfterOnceDispatch
      /\ userId' = IF o.result \in {"ok", "invalidAddressType"} THEN Some(o.uuid) ELSE userId
      /\ wsClose' = IF wsClose # Null THEN wsClose
                    ELSE IF o.result = "invalidFormat" THEN CloseCall(1008, "Invalid data format")
                    ELSE IF o.result = "invalidUser" THEN CloseCall(1008, "Invalid user")
                    ELSE IF o.result = "invalidAddressType"
                         THEN CloseCall(1008, "Invalid address type")
                    ELSE wsClose
      /\ IF o.result = "ok"
         THEN /\ targetHost' = Some(o.host)
              /\ targetPort' = Some(o.port)
              /\ isUDP' = o.udp
              /\ sends' = sends \o <<SendCall(n, "response", SuccessResponse)>>
                            \o (IF o.udp THEN <<SendCall(n, "udpReply", UDPReply(o.host, o.port))>>
                                ELSE << >>)
              /\ relayListener' = (relayListener \/ ~o.udp)
         ELSE UNCHANGED <<targetHost, targetPort, isUDP, sends, relayListener>>
      /\ handledBy' = Append(handledBy, "firstMessageHandler")
      /\ UNCHANGED <<clientClosed, pending, fetches, upstream>>

\* What messageHandler does with a message before it returns or suspends:
\* the websocket.send calls it makes (kind and data, in order), the
\* websocket.close call, and the request it awaits.
RelayStep(m, host, port) ==
  LET bytes == m.data
      text == TextDecode(bytes)
      init == RequestInit(text)
      none == [sent |-> << >>, close |-> Null, request |-> Null, threw |-> FALSE]
  IN  IF ~m.binary THEN none
      ELSE IF HttpEligible(host, port) /\ LooksLikeHttp(text)
      THEN IF StartsWith(text, "CONNECT ")
           THEN IF SendThrows
                THEN [none EXCEPT !.sent = <<<<"connectReply", ConnectEstablished>>,
                                             <<"badGateway", BadGateway>>>>]
                ELSE [none EXCEPT !.sent = <<<<"connectReply", ConnectEstablished>>>>,
                                  !.close = CloseCall(1000, "CONNECT not fully supported")]
           ELSE IF FetchThrows(host, init)
                THEN [none EXCEPT !.sent = <<<<"badGateway", BadGateway>>>>, !.threw = TRUE]
                ELSE [none EXCEPT !.request =
                        Some([url |-> RequestUrl(host, port), method |-> init.method,
                              headers |-> init.headers, body |-> init.body])]
      ELSE [none EXCEPT !.sent = <<<<"echo", bytes>>>>]

\* The send calls of one handler run, as records of the session.
SendCalls(of, sent) == [i \in 1..Len(sent) |-> SendCall(of, sent[i][1], sent[i][2])]

\* messageHandler up to its return or its first await.
RelayMessage(m) ==
  LET n == Len(inbox) + 1
      r == RelayStep(m, targetHost[1], targetPort[1])
  IN  /\ relayListener
      /\ ~firstListener
      /\ CanDispatch
      /\ inbox' = Append(inbox, m)
      /\ sends' = sends \o SendCalls(n, r.sent)
      /\ wsClose' = IF wsClose = Null THEN r.close ELSE wsClose
      /\ IF r.request # Null
         THEN /\ fetches' = Append(fetches, [of |-> n, request |-> r.request[1]])
              /\ pending' = pending \cup {[of |-> n, at |-> "fetch"]}
         ELSE UNCHANGED <<fetches, pending>>
      /\ handledBy' = Append(handledBy, "messageHandler")
      /\ upstream' = IF r.threw THEN upstream \cup {[of |-> n, result |-> "failed"]}
                     ELSE upstream
      /\ UNCHANGED <<firstListener, relayListener, userId, targetHost, targetPort,
                     isUDP, clientClosed>>

\* A message event with no listener registered: nothing runs.
UnhandledMessage(m) ==
  /\ ~firstListener
  /\ ~relayListener
  /\ CanDispatch
  /\ inbox' = Append(inbox, m)
  /\ handledBy' = Append(handledBy, "none")
  /\ UNCHANGED <<firstListener, relayListener, userId, targetHost, targetPort, isUDP,
                 sends, wsClose, clientClosed, pending, fetches, upstream>>

\* await fetch(url, requestInit) resolves: the run goes on to await the body.
FetchResolve(p) ==
  /\ p \in pending
  /\ p.at = "fetch"
  /\ pending' = (pending \ {p}) \cup {[p EXCEPT !.at = "arrayBuffer"]}
  /\ upstream' = upstream \cup {[of |-> p.of, result |-> "opened"]}
  /\ UNCHANGED <<firstListener, relayListener, userId, targetHost, targetPort, isUDP,
                 inbox, sends, wsClose, clientClosed, fetches, handledBy>>

\* await fetch(...) or await response.arrayBuffer() rejects: catch (fetchError)
\* sends the 502 text; the channel stays as it is.
AwaitReject(p) ==
  /\ p \in pending
  /\ pending' = pending \ {p}
  /\ sends' = Append(sends, SendCall(p.of, "badGateway", BadGateway))
  /\ upstream' = IF p.at = "fetch" THEN upstream \cup {[of |-> p.of, result |-> "failed"]}
                 ELSE upstream
  /\ UNCHANGED <<firstListener, relayListener, userId, targetHost, targetPort, isUDP,
                 inbox, wsClose, clientClosed, fetches, handledBy>>

\* await response.arrayBuffer() resolves: websocket.send(responseBody); when
\* that throws, catch (fetchError) tries to send the 502 text.
BodyResolve(p) ==
  /\ p \in pending
  /\ p.at = "arrayBuffer"
  /\ pending' = pending \ {p}
  /\ sends' = sends \o <<SendCall(p.of, "responseBody", << >>)>>
                \o (IF SendThrows THEN <<SendCall(p.of, "badGateway", BadGateway)>> ELSE << >>)
  /\ UNCHANGED <<firstListener, relayListener, userId, targetHost, targetPort, isUDP,
                 inbox, wsClose, clientClosed, fetches, handledBy, upstream>>

\* The peer closes the channel (or it fails): the 'close' and 'error'
\* listeners only log.
ClientClose ==
  /\ ~clientClosed
  /\ clientClosed' = TRUE
  /\ UNCHANGED <<firstListener, relayListener, userId, targetHost, targetPort, isUDP,
                 inbox, sends, wsClose, pending, fetches, handledBy, upstream>>

Next ==
  \/ \E m \in FirstMessages : FirstMessage(m)
  \/ \E m \in RelayMessages : RelayMessage(m)
  \/ \E m \in RelayMessages : UnhandledMessage(m)
  \/ \E p \in pending : FetchResolve(p)
  \/ \E p \in pending : AwaitReject(p)
  \/ \E p \in pending : BodyResolve(p)
  \/ ClientClose

Spec == Init /\ [][Next]_vars

\* A suspended messageHandler run goes on: the runtime settles every fetch
\* and every body read.
Continuation ==
  \E p \in pending : FetchResolve(p) \/ AwaitReject(p) \/ BodyResolve(p)

\* The session with every suspended run eventually resumed. Client events
\* (messages, the peer's close) are under no obligation to happen.
FairSpec == Spec /\ WF_vars(Continuation)

(***************************************************************************)
(* Header decoding alone: one first message from a wider set of addresses  *)
(* and ports, and nothing after it                                         *)
(***************************************************************************)

ByteSamples == {0, 1, 9, 10, 99, 100, 255}
PortSamples == {0, 1, 80, 255, 256, 443, 8080, 65535}

\* IPv4 destinations of a known user.
IPv4Headers ==
  { Header(GoodId, 0, 1, port, AddrIPv4(a, b, cd[1], cd[2])) :
      port \in PortSamples, a \in ByteSamples, b \in ByteSamples,
      cd \in {<<0, 1>>, <<216, 34>>, <<255, 255>>} }
    \cup { ScenarioC }

\* IPv6 addresses: all zero, all ones, zero runs at either end and inside,
\* two runs of different and of equal length, groups with leading zeros.
IPv6Samples ==
  { ZeroBytes16, OnesBytes16, MixedBytes16,
    <<0, 0, 0, 0, 0, 0, 0, 0, 0, 0, 0, 0, 0, 0, 0, 1>>,
    <<0, 1, 0, 0, 0, 0, 0, 0, 0, 0, 0, 0, 0, 0, 0, 0>>,
    <<254, 128, 0, 0, 0, 0, 0, 0, 2, 0, 94, 255, 254, 0, 83, 1>>,
    <<0, 1, 0, 0, 0, 0, 0, 2, 0, 0, 0, 0, 0, 0, 0, 3>>,
    <<0, 1, 0, 0, 0, 0, 0, 2, 0, 0, 0, 0, 0, 3, 0, 4>>,
    <<32, 1, 13, 184, 0, 0, 0, 1, 0, 2, 0, 3, 0, 4, 0, 5>>,
    <<18, 52, 86, 120, 154, 188, 222, 240, 1, 35, 69, 103, 137, 171, 205, 239>> }

IPv6Headers ==
  { Header(GoodId, 0, 1, port, AddrIPv6(bytes)) : port \in {443, 8080}, bytes \in IPv6Samples }

DecodeMessages == { Binary(b) : b \in IPv4Headers \cup IPv6Headers }

DecodeNext == \E m \in DecodeMessages : FirstMessage(m)

DecodeSpec == Init /\ [][DecodeNext]_vars

(***************************************************************************)
(* Properties of the session                                               *)
(***************************************************************************)

\* The 2-byte success response has been sent.
ResponseSent == \E i \in DOMAIN sends : sends[i].kind = "response"

\* The first 16 bytes of a buffer are the identifier bytes of a configured user.
KnownIds == { UserIdBytes(u) : u \in VLESS_USERS }
KnownIdentifier(buffer) == Slice(buffer, 0, 16) \in KnownIds

\* The first message has been dispatched and was binary.
FirstBinary == Len(inbox) >= 1 /\ inbox[1].binary

\* A buffer that ends before the address its tag announces.
TooShort(buffer) ==
  \/ Len(buffer) < 21
  \/ buffer[21] = 1 /\ Len(buffer) < 25
  \/ buffer[21] = 2 /\ (Len(buffer) < 22 \/ Len(buffer) < 22 + buffer[22])
  \/ buffer[21] = 3 /\ Len(buffer) < 37

\* The session has passed the handshake and is in TCP or UDP mode.
Relaying == userId # Null /\ targetHost # Null /\ ResponseSent /\ (relayListener \/ isUDP)

\* The session has closed the channel.
Terminated == wsClose # Null

\* C1: a session passes authentication exactly when the first 16 bytes of its
\* first binary message are the identifier of a configured user; when they
\* are not, no success response is sent, the channel is closed with
\* 1008 'Invalid user', and no upstream request is ever issued.
C1_AuthenticationIffKnownIdentifier ==
  FirstBinary =>
    /\ (userId # Null) <=> KnownIdentifier(inbox[1].data)
    /\ ~KnownIdentifier(inbox[1].data) =>
         /\ ~ResponseSent
         /\ wsClose = CloseCall(1008, "Invalid user")
         /\ fetches = << >>

\* A user's identifier with its lowest bit flipped.
OneBitOff == FlipBit(GoodId, 0)

\* C1 witness: an identifier one bit away from a user's was refused, and a
\* later message has arrived on the channel.
C1_Witness ==
  /\ FirstBinary
  /\ Slice(inbox[1].data, 0, 16) = OneBitOff
  /\ wsClose = CloseCall(1008, "Invalid user")
  /\ Len(inbox) >= 2

\* C2 (as claimed): the success response is on the channel only once an
\* upstream open has succeeded.
C2_ResponseOnlyAfterUpstreamOpen ==
  ResponseSent => \E u \in upstream : u.result = "opened"

\* C3 (as claimed): once an upstream open has failed the session has closed
\* the channel with a reason of its own for that failure, and no later
\* message causes a send.
C3_UpstreamFailureCloses ==
  \A u \in upstream : u.result = "failed" =>
    /\ wsClose # Null
    /\ wsClose[1].reason \notin {"Invalid user", "Invalid data format",
                                  "Invalid address type", "CONNECT not fully supported"}
    /\ \A k \in DOMAIN sends : sends[k].of <= u.of

\* C4: only the first message is handled as a handshake, at most one success
\* response is sent, and once the first message has been handled the one-shot
\* handler is gone and the session is relaying or terminated.
C4_SingleHandshake ==
  /\ \A i \in DOMAIN handledBy : handledBy[i] = "firstMessageHandler" => i = 1
  /\ Cardinality({k \in DOMAIN sends : sends[k].kind = "response"}) <= 1
  /\ Len(inbox) >= 1 => (~firstListener /\ (Relaying \/ Terminated))

\* C4 witness: two messages after a successful handshake went to the relay
\* handler, with one success response on the channel.
C4_Witness ==
  /\ Len(inbox) >= 3
  /\ handledBy[1] = "firstMessageHandler"
  /\ handledBy[2] = "messageHandler"
  /\ handledBy[3] = "messageHandler"
  /\ ResponseSent

\* C5 (as claimed, whatever the close reason): a first binary message too
\* short for its header is refused: the channel is closed, no success
\* response is sent and the relay is never entered.
C5_TruncatedRefused ==
  (FirstBinary /\ TooShort(inbox[1].data)) =>
    /\ wsClose # Null
    /\ ~ResponseSent
    /\ ~relayListener

\* C6 (as claimed): an otherwise valid, authenticated header whose command is
\* neither 1 nor 2 is refused: channel closed, no success response, no relay
\* handler.
C6_UnsupportedCommandRefused ==
  (/\ FirstBinary
   /\ KnownIdentifier(inbox[1].data)
   /\ ~TooShort(inbox[1].data)
   /\ inbox[1].data[21] \in {1, 2, 3}
   /\ inbox[1].data[18] \notin {1, 2}) =>
    /\ wsClose # Null
    /\ ~ResponseSent
    /\ ~relayListener

\* C7: an authenticated header whose address type is not 1, 2 or 3 closes the
\* channel with 'Invalid address type'; nothing is ever sent, no relay handler
\* is installed and later messages run no handler.
C7_UnknownAddressTypeCloses ==
  (/\ FirstBinary
   /\ KnownIdentifier(inbox[1].data)
   /\ At(inbox[1].data, 20) \notin {1, 2, 3}) =>
    /\ wsClose = CloseCall(1008, "Invalid address type")
    /\ sends = << >>
    /\ ~relayListener
    /\ \A i \in 2..Len(handledBy) : handledBy[i] = "none"

\* C7 witness: address type 4 from a known user, and a later message arrived.
C7_Witness ==
  /\ FirstBinary
  /\ KnownIdentifier(inbox[1].data)
  /\ At(inbox[1].data, 20) = 4
  /\ Len(inbox) >= 2

\* C8 (as claimed): a domain address whose length byte is 0, or promises more
\* bytes than follow, is refused: channel closed, no success response, no
\* relay.
C8_MalformedDomainRefused ==
  (/\ FirstBinary
   /\ KnownIdentifier(inbox[1].data)
   /\ At(inbox[1].data, 20) = 2
   /\ Len(inbox[1].data) >= 22
   /\ (inbox[1].data[22] = 0 \/ Len(inbox[1].data) < 22 + inbox[1].data[22])) =>
    /\ wsClose # Null
    /\ ~ResponseSent
    /\ ~relayListener

\* C9 (as claimed): every binary message the relay handler gets goes to the
\* upstream, and nothing the session makes up for it goes back to the client.
C9_ForwardedVerbatim ==
  \A i \in 2..Len(inbox) :
    (handledBy[i] = "messageHandler" /\ inbox[i].binary) =>
      /\ \E k \in DOMAIN fetches : fetches[k].of = i
      /\ \A k \in DOMAIN sends : sends[k].of = i => sends[k].kind = "responseBody"

\* C10 (as claimed): what the session emits follows the arrival order of the
\* messages that caused it.
C10_ArrivalOrderKept ==
  /\ \A i, j \in DOMAIN sends : i < j => sends[i].of <= sends[j].of
  /\ \A i, j \in DOMAIN fetches : i < j => fetches[i].of <= fetches[j].of

\* The bytes of a complete header's message that follow its address field.
TrailingPayload(buffer) == Slice(buffer, 21 + AddressLength(buffer), Len(buffer))

\* C11 (as claimed): bytes that follow the address field in the first message
\* of a successful TCP handshake are sent on to the upstream.
C11_TrailingPayloadForwarded ==
  (/\ FirstBinary
   /\ ResponseSent
   /\ ~isUDP
   /\ ~TooShort(inbox[1].data)
   /\ TrailingPayload(inbox[1].data) # << >>) =>
    \E k \in DOMAIN fetches : fetches[k].of = 1

\* C12 (as claimed): the two halves end together.  Once the peer has closed
\* the channel nothing that comes back from an upstream request is sent any
\* more; and once an upstream request has failed and the session has nothing
\* left to run, the channel is closed.
C12_TornDownTogether ==
  /\ \A k \in DOMAIN sends : sends[k].chan # "clientClosed"
  /\ ((\E u \in upstream : u.result = "failed") /\ pending = {}) =>
       (wsClose # Null \/ clientClosed)

\* A decimal numeral without sign or leading zeros.
IsCanonicalDecimal(s) ==
  /\ Len(s) >= 1
  /\ \A i \in 1..Len(s) : \E d \in 1..10 : CharAt("0123456789", d) = CharAt(s, i)
  /\ Len(s) > 1 => CharAt(s, 1) # "0"

\* The number a decimal numeral denotes.
RECURSIVE ParseDec(_)
ParseDec(s) ==
  IF Len(s) = 0 THEN 0
  ELSE 10 * ParseDec(SubSeq(s, 1, Len(s) - 1))
         + (CHOOSE d \in 0..9 : CharAt("0123456789", d + 1) = CharAt(s, Len(s)))

\* C13: for an authenticated header with address type 1, the destination
\* host is the dotted decimal text of bytes 21..24 (four canonical numerals
\* that read back as those bytes) and the port is 256 * byte 18 + byte 19.
C13_IPv4Destination ==
  (/\ FirstBinary
   /\ KnownIdentifier(inbox[1].data)
   /\ Len(inbox[1].data) >= 25
   /\ inbox[1].data[21] = 1) =>
    /\ targetHost # Null
    /\ LET parts == Split(targetHost[1], ".")
       IN  /\ Len(parts) = 4
           /\ \A i \in 1..4 : /\ IsCanonicalDecimal(parts[i])
                              /\ ParseDec(parts[i]) = inbox[1].data[21 + i]
    /\ targetPort = Some(256 * inbox[1].data[19] + inbox[1].data[20])

\* C13 witness: scenario C was decoded to 93.184.216.34:443.
C13_Witness ==
  /\ FirstBinary
  /\ inbox[1].data = ScenarioC
  /\ targetHost = Some("93.184.216.34")
  /\ targetPort = Some(443)

\* A 16-bit group in hexadecimal without leading zeros.
RECURSIVE Hex16(_)
Hex16(n) ==
  IF n < 16 THEN CharAt(HexDigits, n + 1)
  ELSE Hex16(n \div 16) \o CharAt(HexDigits, (n % 16) + 1)

\* The eight 16-bit groups of 16 address bytes.
Groups16(bytes) == [i \in 1..8 |-> 256 * bytes[2 * i - 1] + bytes[2 * i]]

\* The number of zero groups at g[i..].
RECURSIVE ZeroGroups(_, _)
ZeroGroups(g, i) == IF i > Len(g) \/ g[i] # 0 THEN 0 ELSE 1 + ZeroGroups(g, i + 1)

\* The canonical text of 16 address bytes: eight hexadecimal groups joined
\* by ":", the first longest run of zero groups written as "::".
CanonicalIPv6(bytes) ==
  LET g == Groups16(bytes)
      hex == [i \in 1..8 |-> Hex16(g[i])]
      longest == CHOOSE n \in 0..8 :
                   /\ \E i \in 1..8 : ZeroGroups(g, i) = n
                   /\ \A i \in 1..8 : ZeroGroups(g, i) <= n
      first == CHOOSE i \in 1..8 :
                 /\ ZeroGroups(g, i) = longest
                 /\ \A j \in 1..(i - 1) : ZeroGroups(g, j) < longest
  IN  IF longest = 0 THEN Join(hex, ":")
      ELSE Join(SubSeq(hex, 1, first - 1), ":") \o "::"
             \o Join(SubSeq(hex, first + longest, 8), ":")

\* C14 (as claimed): for an authenticated header with address type 3 the
\* destination host is the canonical IPv6 text of bytes 21..36.
C14_IPv6Canonical ==
  (/\ FirstBinary
   /\ KnownIdentifier(inbox[1].data)
   /\ Len(inbox[1].data) >= 37
   /\ inbox[1].data[21] = 3) =>
    targetHost = Some(CanonicalIPv6(SubSeq(inbox[1].data, 22, 37)))

\* A message that is a sequence of length-prefixed datagrams: a 2-byte
\* big-endian length, that many payload bytes, and so on to the end.
RECURSIVE WellFramed(_)
WellFramed(data) ==
  \/ data = << >>
  \/ /\ Len(data) >= 2
     /\ Len(data) >= 2 + 256 * data[1] + data[2]
     /\ WellFramed(SubSeq(data, 3 + 256 * data[1] + data[2], Len(data)))

\* C15 (as claimed): in UDP mode every message sent after the success
\* response is a sequence of length-prefixed datagrams, and every later
\* client message is handled rather than ignored.
C15_UDPFramed ==
  (FirstBinary /\ ResponseSent /\ isUDP) =>
    /\ \A k \in DOMAIN sends : sends[k].kind # "response" => WellFramed(sends[k].data)
    /\ \A i \in 2..Len(handledBy) : handledBy[i] # "none"

\* C16: a first message that is not binary gets nothing sent, the channel
\* closed as invalid data format, no authentication and no relay handler,
\* and every later message is handled by nobody and produces nothing.
C16_NonBinaryFirstRefused ==
  (Len(inbox) >= 1 /\ ~inbox[1].binary) =>
    /\ sends = << >>
    /\ fetches = << >>
    /\ wsClose # Null
    /\ wsClose[1].code = 1008
    /\ toLowerCase(wsClose[1].reason) = "invalid data format"
    /\ userId = Null
    /\ ~firstListener
    /\ ~relayListener
    /\ \A i \in 2..Len(handledBy) : handledBy[i] = "none"

\* C16 witness: a text first message was refused and two more messages,
\* one of them an HTTP request, arrived after it.
C16_Witness ==
  /\ Len(inbox) >= 3
  /\ ~inbox[1].binary
  /\ \E i \in 2..3 : inbox[i].binary /\ LooksLikeHttp(TextDecode(inbox[i].data))
  /\ wsClose = CloseCall(1008, "Invalid data format")
  /\ sends = << >>

\* The session still waits for its first message.
AwaitingHandshake == firstListener /\ wsClose = Null /\ ~clientClosed

\* C17 (as claimed): no session waits for its first message for ever:
\* eventually the first message has been dispatched or the channel is
\* closed, whether or not the client ever does anything.
C17_SelfTerminates == <>(~AwaitingHandshake)

\* C18 (as claimed): no websocket.send call is made once the session has
\* called websocket.close.
C18_NoSendAfterOwnClose ==
  \A k \in DOMAIN sends : sends[k].chan # "serverClosed"

\* C19: a request to a destination, anything sent on the channel, or the
\* relay handler installed, each imply that the first message was binary
\* and carried the identifier of a loaded user.
C19_RelayOnlyAfterAuthentication ==
  (fetches # << >> \/ sends # << >> \/ relayListener) =>
    (FirstBinary /\ KnownIdentifier(inbox[1].data))

\* C19 witness: an authenticated session has issued a request and echoed
\* a payload.
C19_Witness ==
  /\ FirstBinary
  /\ KnownIdentifier(inbox[1].data)
  /\ relayListener
  /\ fetches # << >>
  /\ \E k \in DOMAIN sends : sends[k].kind = "echo"

\* How many times message i was handled as relay payload: the echoes and
\* CONNECT replies for it, the requests issued for it, and a request that
\* failed before it was issued.
HandledAsPayload(i) ==
  Cardinality({k \in DOMAIN sends : sends[k].of = i /\ sends[k].kind \in {"echo", "connectReply"}})
  + Cardinality({k \in DOMAIN fetches : fetches[k].of = i})
  + (IF /\ \E u \in upstream : u.of = i /\ u.result = "failed"
        /\ \A k \in DOMAIN fetches : fetches[k].of # i
     THEN 1 ELSE 0)

\* C20: after a successful TCP handshake the relay handler is installed
\* before the next dispatch; every later message goes to it, each binary
\* one is handled as payload exactly once, and the handshake message never.
C20_HandOver ==
  (FirstBinary /\ ResponseSent /\ ~isUDP) =>
    /\ relayListener
    /\ ~firstListener
    /\ handledBy[1] = "firstMessageHandler"
    /\ HandledAsPayload(1) = 0
    /\ \A i \in 2..Len(inbox) :
         /\ handledBy[i] = "messageHandler"
         /\ inbox[i].binary => HandledAsPayload(i) = 1
         /\ ~inbox[i].binary => HandledAsPayload(i) = 0

\* C20 witness: after a TCP handshake an HTTP request was issued for the
\* second message and the third was echoed.
C20_Witness ==
  /\ Len(inbox) >= 3
  /\ ResponseSent
  /\ ~isUDP
  /\ \E k \in DOMAIN fetches : fetches[k].of = 2
  /\ \E k \in DOMAIN sends : sends[k].of = 3 /\ sends[k].kind = "echo"

============================================================================
